---- MODULE Spec2Model ----
(***************************************************************************)
(* Model of the MCP test server (src/mcp/backup/mcp-test-server.py) and    *)
(* its command-line client (src/mcp/backup/run-mcp-tests.py).              *)
(*                                                                         *)
(* Every Python function is an operator of the same name.  A handler is a  *)
(* coroutine whose only suspension point is the await inside run_command;  *)
(* it is evaluated against the outcomes of the external processes that     *)
(* have completed so far in the call (the variable log).  When it needs    *)
(* one more outcome it is suspended at that await, and the action          *)
(* ProcessExit supplies the outcome; otherwise the action Return delivers  *)
(* its response.                                                           *)
(***************************************************************************)
EXTENDS Integers, Sequences, FiniteSets, TLC

VARIABLES
    fs,         \* the set of paths that exist on the filesystem
    cwd,        \* working directory of the server process
    pc,         \* server: "idle", "running" (a call in progress), "done"
    request,    \* the ToolInvocation being served
    fault,      \* which filesystem operation fails with OSError in this call
    log,        \* external process runs of the current call, in spawn order:
                \* the command, how the run ended, what run_command returned
    response,   \* outcome of the current call
    client,     \* the command-line client process
    tools       \* what the most recent list_tools request returned

vars == <<fs, cwd, pc, request, fault, log, response, client, tools>>

(***************************************************************************)
(* Bounds of the model.                                                    *)
(***************************************************************************)
\* exit codes of external processes range over 0..MaxExit
MaxExit == 1

(***************************************************************************)
(* Python values of the dynamically typed argument mapping.                *)
(***************************************************************************)
PyStr(s) == [type |-> "str", str |-> s, bool |-> FALSE]
PyBool(b) == [type |-> "bool", str |-> "", bool |-> b]
PyNone == [type |-> "NoneType", str |-> "", bool |-> FALSE]

\* truth value of a Python object, as tested by `if x:`
Truthy(v) ==
    CASE v.type = "str" -> v.str # ""
      [] v.type = "bool" -> v.bool
      [] OTHER -> FALSE

\* f-string interpolation {v}
Format(v) ==
    CASE v.type = "str" -> v.str
      [] v.type = "bool" -> IF v.bool THEN "True" ELSE "False"
      [] OTHER -> "None"

\* dict.get(key, default)
Get(arguments, key, default) ==
    IF key \in DOMAIN arguments THEN arguments[key] ELSE default

IsSpace(c) == c \in {" ", "\n", "\t", "\r"}

RECURSIVE LStrip(_)
LStrip(s) ==
    IF Len(s) > 0 /\ IsSpace(SubSeq(s, 1, 1))
    THEN LStrip(SubSeq(s, 2, Len(s)))
    ELSE s

RECURSIVE RStrip(_)
RStrip(s) ==
    IF Len(s) > 0 /\ IsSpace(SubSeq(s, Len(s), Len(s)))
    THEN RStrip(SubSeq(s, 1, Len(s) - 1))
    ELSE s

\* str.strip()
Strip(s) == LStrip(RStrip(s))

StartsWith(s, p) == Len(s) >= Len(p) /\ SubSeq(s, 1, Len(p)) = p
EndsWith(s, p) == Len(s) >= Len(p) /\ SubSeq(s, Len(s) - Len(p) + 1, Len(s)) = p

RECURSIVE Contains(_, _)
Contains(s, p) ==
    IF Len(s) < Len(p) THEN FALSE
    ELSE StartsWith(s, p) \/ Contains(SubSeq(s, 2, Len(s)), p)

(***************************************************************************)
(* Bytes captured from a process and their decoding.  The bytes of the     *)
(* model are 'V' (86), '1' (49), 'E' (69), newline (10) and 0xFF, which    *)
(* no UTF-8 text contains.                                                 *)
(***************************************************************************)
Chr(b) ==
    CASE b = 10 -> "\n"
      [] b = 49 -> "1"
      [] b = 69 -> "E"
      [] b = 86 -> "V"

\* bytes.decode("utf-8") raises UnicodeDecodeError on a byte that is not UTF-8
Decodable(bytes) == \A i \in 1..Len(bytes) : bytes[i] < 128

RECURSIVE decode(_)
decode(bytes) ==
    IF bytes = <<>> THEN "" ELSE Chr(Head(bytes)) \o decode(Tail(bytes))

ExitCodes == 0..MaxExit

\* what one attempt to run an external process can end in
Outcomes ==
    { [kind |-> "spawn_failed", code |-> 0, stdout |-> <<>>, stderr |-> <<>>] }
    \cup
    { [kind |-> "exited", code |-> c, stdout |-> o[1], stderr |-> o[2]] :
        c \in ExitCodes,
        o \in { <<<<86, 49, 10>>, <<69, 10>>>>, <<<<86, 49, 10>>, <<>>>>,
                <<<<86, 49, 10>>, <<255>>>> } }

(***************************************************************************)
(* Paths.                                                                  *)
(***************************************************************************)
REPO_ROOT == "/repo"

\* the directory the server process is started in
StartDir == "/"

\* pathlib's a / b
PathJoin(base, seg) ==
    IF seg = "" THEN base
    ELSE IF StartsWith(seg, "/") THEN seg
    ELSE base \o "/" \o seg

TEST_SCRIPT == PathJoin(PathJoin(REPO_ROOT, "test"), "run-tests.sh")
DOCKER_COMPOSE_FILE == PathJoin(REPO_ROOT, "docker-compose.yml")

(***************************************************************************)
(* Command Executor.  st is the execution state of the running call:       *)
(* outs are the outcomes of the processes not yet consumed by the replay,  *)
(* pending says the coroutine is suspended at an await, awaiting is the    *)
(* command it waits for, cwd the process's working directory.              *)
(***************************************************************************)
Suspended == [returncode |-> -1, stdout |-> "", stderr |-> ""]

run_command(cmd, verbose, st) ==
    IF st.pending THEN [ret |-> Suspended, st |-> st]
    ELSE IF st.outs = <<>>
    THEN [ret |-> Suspended,
          st |-> [st EXCEPT !.pending = TRUE, !.awaiting = cmd]]
    ELSE LET o == Head(st.outs)
             st1 == [st EXCEPT !.outs = Tail(@)]
         IN IF o.kind = "spawn_failed"
            THEN [ret |-> [returncode |-> -1, stdout |-> "",
                           stderr |-> "Command execution failed: "
                                      \o "[Errno 2] No such file or directory"],
                  st |-> st1]
            ELSE IF ~Decodable(o.stdout) \/ ~Decodable(o.stderr)
            THEN [ret |-> [returncode |-> -1, stdout |-> "",
                           stderr |-> "Command execution failed: "
                                      \o "'utf-8' codec can't decode byte 0xff"],
                  st |-> st1]
            ELSE [ret |-> [returncode |-> o.code,
                           stdout |-> decode(o.stdout),
                           stderr |-> decode(o.stderr)],
                  st |-> st1]

check_docker_availability(st) ==
    LET docker_result == run_command(<<"docker", "--version">>, FALSE, st)
    IN IF docker_result.ret.returncode # 0
       THEN [ret |-> [available |-> FALSE, error |-> "Docker not found"],
             st |-> docker_result.st]
       ELSE LET compose_result ==
                    run_command(<<"docker", "compose", "version">>, FALSE,
                                docker_result.st)
            IN IF compose_result.ret.returncode # 0
               THEN [ret |-> [available |-> FALSE,
                              error |-> "Docker Compose not found"],
                     st |-> compose_result.st]
               ELSE [ret |-> [available |-> TRUE, error |-> ""],
                     st |-> compose_result.st]

\* build_image with the build's exit code ignored
build_image_always_success(force, st) ==
    LET cmd == IF Truthy(force)
               THEN <<"docker", "compose", "build", "--no-cache">>
               ELSE <<"docker", "compose", "build">>
        result == run_command(cmd, FALSE, st)
    IN [ret |-> [success |-> TRUE,
                 output |-> result.ret.stdout \o result.ret.stderr,
                 error |-> "None"],
        st |-> result.st]

build_image(force, st) ==
    LET cmd == IF Truthy(force)
               THEN <<"docker", "compose", "build", "--no-cache">>
               ELSE <<"docker", "compose", "build">>
        result == run_command(cmd, FALSE, st)
    IN [ret |-> [success |-> result.ret.returncode = 0,
                 output |-> result.ret.stdout \o result.ret.stderr,
                 error |-> IF result.ret.returncode = 0
                           THEN "None" ELSE "Build failed"],
        st |-> result.st]

(***************************************************************************)
(* Tool handlers.  Each returns [resp, st]: the CallToolResult and the     *)
(* execution state after it.  The status glyphs of the banners (a check    *)
(* mark and a cross) are written [OK] and [X].                             *)
(***************************************************************************)
TextContent(text) == [type |-> "text", text |-> text]

CallToolResult(text, st) ==
    [resp |-> [kind |-> "result", content |-> <<TextContent(text)>>,
               error |-> ""],
     st |-> st]

run_tests(arguments, st) ==
    LET verbose == Get(arguments, "verbose", PyBool(FALSE))
        specific_test == Get(arguments, "specific_test", PyNone)
        rebuild == Get(arguments, "rebuild", PyBool(FALSE))
    IN IF st.fault = "chdir"
       THEN CallToolResult("Error running tests: "
                           \o "[Errno 2] No such file or directory: '/repo'", st)
       ELSE
       LET docker_check == check_docker_availability([st EXCEPT !.cwd = REPO_ROOT])
       IN IF ~docker_check.ret.available
          THEN CallToolResult("Docker not available: " \o docker_check.ret.error,
                              docker_check.st)
          ELSE
          LET build_result ==
                  IF Truthy(rebuild)
                  THEN build_image(rebuild, docker_check.st)
                  ELSE [ret |-> [success |-> TRUE, output |-> "", error |-> "None"],
                        st |-> docker_check.st]
          IN IF Truthy(rebuild) /\ ~build_result.ret.success
             THEN CallToolResult("Failed to build Docker image: "
                                 \o build_result.ret.error, build_result.st)
             ELSE
             LET cmd == IF Truthy(specific_test)
                        THEN <<"docker", "compose", "run", "--rm", "lua-test",
                               "sh", "-c",
                               "echo '=== Running " \o Format(specific_test)
                               \o " ===' && lua test/" \o Format(specific_test)>>
                        ELSE <<"./test/run-tests.sh">>
                 result == run_command(cmd, verbose, build_result.st)
                 output == result.ret.stdout \o result.ret.stderr
                 success == result.ret.returncode = 0
                 status == IF success THEN "[OK] PASSED" ELSE "[X] FAILED"
                 formatted_output ==
                     Strip("\n" \o status \o " - UCI Config Tool Tests\n\n"
                           \o "Return Code: " \o ToString(result.ret.returncode)
                           \o "\n\n=== TEST OUTPUT ===\n" \o output
                           \o "\n\n=== SUMMARY ===\nTests "
                           \o (IF success THEN "completed successfully" ELSE "failed")
                           \o "\n        ")
             IN CallToolResult(formatted_output, result.st)

\* run_single_test with arguments["test_file"] read outside the try block
run_single_test_uncaught(arguments, st) ==
    IF "test_file" \notin DOMAIN arguments
    THEN [resp |-> [kind |-> "raise", content |-> <<>>, error |-> "'test_file'"],
          st |-> st]
    ELSE
    LET test_file == arguments["test_file"]
        verbose == Get(arguments, "verbose", PyBool(FALSE))
    IN IF test_file.type # "str"
       THEN CallToolResult("Error running single test: unsupported operand "
                           \o "type(s) for /: 'PosixPath' and '"
                           \o test_file.type \o "'", st)
       ELSE
       LET test_path == PathJoin(PathJoin(REPO_ROOT, "test"), test_file.str)
       IN IF st.fault = "exists"
          THEN CallToolResult("Error running single test: "
                              \o "[Errno 13] Permission denied", st)
          ELSE IF test_path \notin st.fs
          THEN CallToolResult("Test file not found: " \o Format(test_file), st)
          ELSE run_tests([verbose |-> verbose, specific_test |-> test_file,
                          rebuild |-> PyBool(FALSE)], st)

\* run_single_test without the existence check
run_single_test_unchecked(arguments, st) ==
    IF "test_file" \notin DOMAIN arguments
    THEN CallToolResult("Error running single test: 'test_file'", st)
    ELSE
    LET test_file == arguments["test_file"]
        verbose == Get(arguments, "verbose", PyBool(FALSE))
    IN IF test_file.type # "str"
       THEN CallToolResult("Error running single test: unsupported operand "
                           \o "type(s) for /: 'PosixPath' and '"
                           \o test_file.type \o "'", st)
       ELSE run_tests([verbose |-> verbose, specific_test |-> test_file,
                       rebuild |-> PyBool(FALSE)], st)

run_single_test(arguments, st) ==
    IF "test_file" \notin DOMAIN arguments
    THEN CallToolResult("Error running single test: 'test_file'", st)
    ELSE
    LET test_file == arguments["test_file"]
        verbose == Get(arguments, "verbose", PyBool(FALSE))
    IN IF test_file.type # "str"
       THEN CallToolResult("Error running single test: unsupported operand "
                           \o "type(s) for /: 'PosixPath' and '"
                           \o test_file.type \o "'", st)
       ELSE
       LET test_path == PathJoin(PathJoin(REPO_ROOT, "test"), test_file.str)
       IN IF st.fault = "exists"
          THEN CallToolResult("Error running single test: "
                              \o "[Errno 13] Permission denied", st)
          ELSE IF test_path \notin st.fs
          THEN CallToolResult("Test file not found: " \o Format(test_file), st)
          ELSE run_tests([verbose |-> verbose, specific_test |-> test_file,
                          rebuild |-> PyBool(FALSE)], st)

build_test_image(arguments, st) ==
    LET force == Get(arguments, "force", PyBool(FALSE))
    IN IF st.fault = "chdir"
       THEN CallToolResult("Error building image: "
                           \o "[Errno 2] No such file or directory: '/repo'", st)
       ELSE
       LET docker_check == check_docker_availability([st EXCEPT !.cwd = REPO_ROOT])
       IN IF ~docker_check.ret.available
          THEN CallToolResult("Docker not available: " \o docker_check.ret.error,
                              docker_check.st)
          ELSE
          LET cmd == IF Truthy(force)
                     THEN <<"docker", "compose", "build", "--no-cache">>
                     ELSE <<"docker", "compose", "build">>
              result == run_command(cmd, TRUE, docker_check.st)
              status == IF result.ret.returncode = 0
                        THEN "[OK] Build successful" ELSE "[X] Build failed"
              output == Strip("\n" \o status \o "\n\n=== BUILD OUTPUT ===\n"
                              \o result.ret.stdout \o "\n" \o result.ret.stderr
                              \o "\n        ")
          IN CallToolResult(output, result.st)

\* the names of the entries of directory dir
Children(paths, dir) ==
    { SubSeq(p, Len(dir) + 2, Len(p)) :
        p \in { q \in paths : /\ Len(q) > Len(dir) + 1
                              /\ StartsWith(q, dir \o "/")
                              /\ ~Contains(SubSeq(q, Len(dir) + 2, Len(q)), "/") } }

\* Path.glob("test_*.lua")
Glob(paths, dir) ==
    { n \in Children(paths, dir) :
        StartsWith(n, "test_") /\ EndsWith(n, ".lua") /\ Len(n) >= 9 }

\* code point order of the characters that occur in the model's file names
CharOrder == "-./0123456789_abcdefghijklmnopqrstuvwxyz"
Ord(c) == CHOOSE i \in 1..Len(CharOrder) : SubSeq(CharOrder, i, i) = c

RECURSIVE StrLess(_, _)
StrLess(a, b) ==
    IF a = "" THEN b # ""
    ELSE IF b = "" THEN FALSE
    ELSE LET x == Ord(SubSeq(a, 1, 1))
             y == Ord(SubSeq(b, 1, 1))
         IN IF x # y THEN x < y
            ELSE StrLess(SubSeq(a, 2, Len(a)), SubSeq(b, 2, Len(b)))

RECURSIVE sorted(_)
sorted(S) ==
    IF S = {} THEN <<>>
    ELSE LET m == CHOOSE x \in S : \A y \in S \ {x} : StrLess(x, y)
         IN <<m>> \o sorted(S \ {m})

\* "\n".join(f"  - {file}" for file in files)
RECURSIVE JoinLines(_)
JoinLines(files) ==
    IF files = <<>> THEN ""
    ELSE IF Len(files) = 1 THEN "  - " \o files[1]
    ELSE "  - " \o files[1] \o "\n" \o JoinLines(Tail(files))

\* list_test_files with the test directory given relative to the working directory
list_test_files_relative(arguments, st) ==
    LET test_dir == PathJoin(st.cwd, "test")
    IN IF st.fault \in { "exists", "glob" }
       THEN CallToolResult("Error listing test files: "
                           \o "[Errno 13] Permission denied", st)
       ELSE
       LET test_files == IF test_dir \in st.fs THEN Glob(st.fs, test_dir) ELSE {}
           output == IF test_files # {}
                     THEN "Available test files:\n" \o JoinLines(sorted(test_files))
                     ELSE "No test files found in test/ directory"
       IN CallToolResult(output, st)

list_test_files(arguments, st) ==
    LET test_dir == PathJoin(REPO_ROOT, "test")
    IN IF st.fault \in { "exists", "glob" }
       THEN CallToolResult("Error listing test files: "
                           \o "[Errno 13] Permission denied", st)
       ELSE
       LET test_files == IF test_dir \in st.fs THEN Glob(st.fs, test_dir) ELSE {}
           output == IF test_files # {}
                     THEN "Available test files:\n" \o JoinLines(sorted(test_files))
                     ELSE "No test files found in test/ directory"
       IN CallToolResult(output, st)

check_docker_status(arguments, st) ==
    LET docker_check == check_docker_availability(st)
    IN IF docker_check.ret.available
       THEN LET docker_result ==
                    run_command(<<"docker", "--version">>, FALSE, docker_check.st)
                compose_result ==
                    run_command(<<"docker", "compose", "version">>, FALSE,
                                docker_result.st)
                output ==
                    Strip("\n[OK] Docker Environment Ready\n\n"
                          \o "Docker: " \o Strip(docker_result.ret.stdout) \o "\n"
                          \o "Docker Compose: " \o Strip(compose_result.ret.stdout)
                          \o "\n\nRepository: " \o REPO_ROOT \o "\n"
                          \o "Test Script: " \o TEST_SCRIPT \o "\n"
                          \o "Docker Compose File: " \o DOCKER_COMPOSE_FILE
                          \o "\n            ")
            IN CallToolResult(output, compose_result.st)
       ELSE CallToolResult(
                Strip("\n[X] Docker Environment Not Available\n\n"
                      \o "Error: " \o docker_check.ret.error \o "\n\n"
                      \o "Please ensure Docker and Docker Compose are installed "
                      \o "and running.\n            "),
                docker_check.st)

ToolNames == <<"run_tests", "run_single_test", "build_test_image",
               "list_test_files", "check_docker_status">>

\* the Tool descriptors list_tools returns, by name
list_tools == [i \in 1..Len(ToolNames) |-> [name |-> ToolNames[i]]]

\* call_tool with run_tests as the fall-through branch
call_tool_default(name, arguments, st) ==
    IF name = "run_single_test" THEN run_single_test(arguments, st)
    ELSE IF name = "build_test_image" THEN build_test_image(arguments, st)
    ELSE IF name = "list_test_files" THEN list_test_files(arguments, st)
    ELSE IF name = "check_docker_status" THEN check_docker_status(arguments, st)
    ELSE run_tests(arguments, st)

call_tool(name, arguments, st) ==
    IF name = "run_tests" THEN run_tests(arguments, st)
    ELSE IF name = "run_single_test" THEN run_single_test(arguments, st)
    ELSE IF name = "build_test_image" THEN build_test_image(arguments, st)
    ELSE IF name = "list_test_files" THEN list_test_files(arguments, st)
    ELSE IF name = "check_docker_status" THEN check_docker_status(arguments, st)
    ELSE [resp |-> [kind |-> "raise", content |-> <<>>,
                    error |-> "Unknown tool: " \o name],
          st |-> st]

(***************************************************************************)
(* Inputs: argument mappings, file trees, filesystem faults.               *)
(***************************************************************************)
EmptyArgs == [k \in {} |-> PyNone]

\* every mapping from a subset of the keys of allowed to allowed values
ArgSpace(allowed) ==
    UNION { { f \in [D -> UNION { allowed[k] : k \in D }] :
                \A k \in D : f[k] \in allowed[k] } :
            D \in SUBSET DOMAIN allowed }

Bools == { PyBool(FALSE), PyBool(TRUE) }

RunTestsArgs ==
    ArgSpace([verbose |-> { PyBool(TRUE) },
              specific_test |-> { PyNone, PyStr(""), PyStr("test_a.lua"),
                                  PyStr("missing.lua") },
              rebuild |-> Bools])

RunSingleTestArgs ==
    ArgSpace([test_file |-> { PyNone, PyStr(""), PyStr("test_a.lua"),
                              PyStr("missing.lua"), PyStr("sub") },
              verbose |-> { PyBool(TRUE) }])

BuildTestImageArgs == ArgSpace([force |-> Bools])

PeerRequests ==
    { [name |-> "run_tests", arguments |-> a] : a \in RunTestsArgs }
    \cup { [name |-> "run_single_test", arguments |-> a] : a \in RunSingleTestArgs }
    \cup { [name |-> "build_test_image", arguments |-> a] : a \in BuildTestImageArgs }
    \cup { [name |-> n, arguments |-> EmptyArgs] :
             n \in { "list_test_files", "check_docker_status", "run_test", "" } }

FsConfigs ==
    { { "/repo" },
      { "/repo", "/repo/test", "/repo/test/test_a.lua", "/repo/test/sub",
        "/repo/test/sub/test_c.lua" },
      { "/repo", "/repo/test", "/repo/test/test_b.lua", "/repo/test/test_a.lua",
        "/repo/test/other.txt" } }

Faults == { "none", "chdir", "exists", "glob" }

Argvs ==
    { <<>>, <<"test">>, <<"test", "test_a.lua">>, <<"test", "missing.lua">>,
      <<"build">>, <<"build", "--force">>, <<"help">>, <<"--help">>, <<"-h">>,
      <<"tset">> }

(***************************************************************************)
(* State machine of the server.                                            *)
(***************************************************************************)
NoRequest == [name |-> "", arguments |-> EmptyArgs]
NoResponse == [kind |-> "none", content |-> <<>>, error |-> ""]
Running == [kind |-> "running", code |-> 0, stdout |-> <<>>, stderr |-> <<>>]

\* the process runs of the current call that have completed
Completed == SelectSeq(log, LAMBDA e : e.out.kind # "running")

\* the current call, run on the outcomes of the completed process runs
Exec ==
    call_tool(request.name, request.arguments,
              [outs |-> [i \in 1..Len(Completed) |-> Completed[i].out],
               pending |-> FALSE, awaiting |-> <<>>,
               cwd |-> cwd, fault |-> fault, fs |-> fs])

\* what run_command returns for a process run that ends in outcome o
Executed(cmd, o) ==
    run_command(cmd, FALSE,
                [outs |-> <<o>>, pending |-> FALSE, awaiting |-> <<>>,
                 cwd |-> cwd, fault |-> fault, fs |-> fs]).ret

ClientOff ==
    [pc |-> "off", argv |-> <<>>, step |-> 1, waiting |-> FALSE,
     issued |-> <<>>, printed |-> <<>>, exit |-> 0]

Init ==
    /\ fs \in FsConfigs
    /\ cwd = StartDir
    /\ tools = <<>>
    /\ pc = "idle"
    /\ request = NoRequest
    /\ fault = "none"
    /\ log = <<>>
    /\ response = NoResponse
    /\ client \in { ClientOff, [ClientOff EXCEPT !.pc = "main"] }

\* a request arrives at the server
Accept(req) ==
    /\ pc \in { "idle", "done" }
    /\ request' = req
    /\ \E f \in Faults : fault' = f
    /\ log' = <<>>
    /\ response' = NoResponse
    /\ pc' = "running"
    /\ UNCHANGED <<fs, cwd, tools>>

\* a peer other than the command-line client calls a tool
PeerCall ==
    /\ client.pc = "off"
    /\ \E req \in PeerRequests : Accept(req)
    /\ UNCHANGED client

\* a peer asks for the tools while no call is in progress
ListTools ==
    /\ client.pc = "off"
    /\ pc \in { "idle", "done" }
    /\ tools' = list_tools
    /\ UNCHANGED <<fs, cwd, pc, request, fault, log, response, client>>

\* the handler reaches the await in run_command: the process is started
Spawn ==
    /\ pc = "running"
    /\ Len(Completed) = Len(log)
    /\ Exec.st.pending
    /\ log' = Append(log, [cmd |-> Exec.st.awaiting, out |-> Running,
                            result |-> Suspended])
    /\ cwd' = Exec.st.cwd
    /\ UNCHANGED <<fs, pc, request, fault, response, client, tools>>

\* the awaited process run ends (or create_subprocess_exec raised)
ProcessExit ==
    /\ pc = "running"
    /\ Len(Completed) < Len(log)
    /\ \E o \in Outcomes :
         log' = [log EXCEPT ![Len(log)].out = o,
                            ![Len(log)].result = Executed(log[Len(log)].cmd, o)]
    /\ UNCHANGED <<fs, cwd, pc, request, fault, response, client, tools>>

\* the handler runs to its end: call_tool returns or raises
Return ==
    /\ pc = "running"
    /\ Len(Completed) = Len(log)
    /\ ~Exec.st.pending
    /\ response' = Exec.resp
    /\ cwd' = Exec.st.cwd
    /\ pc' = "done"
    /\ UNCHANGED <<fs, request, fault, log, client, tools>>

(***************************************************************************)
(* The command-line client (run-mcp-tests.py).  Its three commands are     *)
(* the sequences of session.call_tool calls they make; client.step is the  *)
(* position in the sequence, client.issued the tool names called so far,   *)
(* client.printed what it has printed of the responses, client.exit the    *)
(* exit status of the process once client.pc = "exited".                   *)
(***************************************************************************)
client_run_tests ==
    << [name |-> "check_docker_status", arguments |-> EmptyArgs],
       [name |-> "list_test_files", arguments |-> EmptyArgs],
       [name |-> "run_tests",
        arguments |-> [verbose |-> PyBool(TRUE), rebuild |-> PyBool(FALSE)]] >>

client_run_single_test(test_file) ==
    << [name |-> "run_single_test",
        arguments |-> [test_file |-> PyStr(test_file), verbose |-> PyBool(TRUE)]] >>

client_build_image(argv) ==
    << [name |-> "build_test_image",
        arguments |-> [force |-> PyBool(\E i \in 1..Len(argv) : argv[i] = "--force")]] >>

\* the function main dispatches to
main(args) ==
    IF args = <<>> \/ args[1] = "test"
    THEN IF Len(args) > 1 THEN "run_single_test" ELSE "run_tests"
    ELSE IF args[1] = "build" THEN "build_image"
    ELSE IF args[1] \in { "help", "--help", "-h" } THEN "show_help"
    ELSE "unknown_command"

ClientFunctions == { "run_tests", "run_single_test", "build_image" }

\* the calls the running client function makes, in order
Script ==
    CASE client.pc = "run_tests" -> client_run_tests
      [] client.pc = "run_single_test" -> client_run_single_test(client.argv[2])
      [] client.pc = "build_image" -> client_build_image(client.argv)
      [] OTHER -> <<>>

ClientMain ==
    /\ client.pc = "main"
    /\ \E argv \in Argvs :
         client' = IF main(argv) \in ClientFunctions
                   THEN [client EXCEPT !.pc = main(argv), !.argv = argv]
                   ELSE [client EXCEPT !.pc = "exited", !.argv = argv,
                                       !.exit = IF main(argv) = "show_help"
                                                THEN 0 ELSE 1]
    /\ UNCHANGED <<fs, cwd, pc, request, fault, log, response, tools>>

\* await session.call_tool(...): the request is sent
ClientCallTool ==
    /\ client.pc \in ClientFunctions
    /\ ~client.waiting
    /\ Accept(Script[client.step])
    /\ client' = [client EXCEPT !.waiting = TRUE,
                                !.issued = Append(@, Script[client.step].name)]

\* the response arrives and its first text block is printed; after the last
\* call the function returns and the process ends with status 0
ClientPrint ==
    /\ client.pc \in ClientFunctions
    /\ client.waiting
    /\ pc = "done"
    /\ client' =
         IF response.kind # "result" \/ response.content = <<>>
         THEN [client EXCEPT !.pc = "exited", !.waiting = FALSE, !.exit = 1]
         ELSE IF client.step = Len(Script)
         THEN [client EXCEPT !.pc = "exited", !.waiting = FALSE, !.exit = 0,
                             !.printed = Append(@, response.content[1].text)]
         ELSE [client EXCEPT !.step = @ + 1, !.waiting = FALSE,
                             !.printed = Append(@, response.content[1].text)]
    /\ UNCHANGED <<fs, cwd, pc, request, fault, log, response, tools>>

\* an exception inside the try block (the server cannot be started, the
\* transport breaks): the except clause prints it and calls sys.exit(1)
ClientError ==
    /\ client.pc \in ClientFunctions
    /\ client' = [client EXCEPT !.pc = "exited", !.waiting = FALSE, !.exit = 1]
    /\ UNCHANGED <<fs, cwd, pc, request, fault, log, response, tools>>

Next ==
    \/ PeerCall
    \/ ListTools
    \/ Spawn
    \/ ProcessExit
    \/ Return
    \/ ClientMain
    \/ ClientCallTool
    \/ ClientPrint
    \/ ClientError

Spec == Init /\ [][Next]_vars

(***************************************************************************)
(* Properties.                                                             *)
(***************************************************************************)
Registered(name) == \E i \in 1..Len(ToolNames) : ToolNames[i] = name

\* a call is being served or has just been served
InCall == pc \in { "running", "done" }

\* the text of the response of a call that returned
Text == response.content[1].text

Returned == pc = "done" /\ response.kind = "result"

\* C1: a call of a registered tool, whatever its arguments and whatever the
\* external processes and the filesystem do, runs at most four processes and
\* ends by returning a response with at least one text block, never by raising.
C1_RegisteredToolReturnsText ==
    (InCall /\ Registered(request.name)) =>
        /\ Len(log) <= 4
        /\ pc = "done" =>
             /\ response.kind = "result"
             /\ Len(response.content) >= 1
             /\ \A i \in 1..Len(response.content) :
                  response.content[i].type = "text"

\* run_single_test without test_file has returned its error text
C1_Witness ==
    /\ pc = "done"
    /\ request.name = "run_single_test"
    /\ "test_file" \notin DOMAIN request.arguments
    /\ response.kind = "result"
    /\ Text = "Error running single test: 'test_file'"

\* C2: a call of an unregistered name ends in the raised error "Unknown tool:
\* <name>", not in a response, and spawns no process.
C2_UnknownToolRaises ==
    (InCall /\ ~Registered(request.name)) =>
        /\ log = <<>>
        /\ pc = "done" =>
             /\ response.kind = "raise"
             /\ response.content = <<>>
             /\ response.error = "Unknown tool: " \o request.name

C2_Witness ==
    /\ pc = "done"
    /\ request.name = "run_test"
    /\ response.kind = "raise"
    /\ log = <<>>

\* the argument test_file of the current call is a string
HasTestFile ==
    /\ "test_file" \in DOMAIN request.arguments
    /\ request.arguments["test_file"].type = "str"

TestFile == request.arguments["test_file"].str

TestPath == PathJoin(PathJoin(REPO_ROOT, "test"), TestFile)

\* C3: run_single_test of a file that does not exist under the test directory
\* spawns no process at any point of the call and, the existence check having
\* answered, returns "Test file not found: <test_file>".
C3_MissingFileNoSpawn ==
    (InCall /\ request.name = "run_single_test" /\ HasTestFile
            /\ TestPath \notin fs) =>
        /\ log = <<>>
        /\ (pc = "done" /\ fault # "exists") =>
             /\ response.kind = "result"
             /\ Text = "Test file not found: " \o TestFile

C3_Witness ==
    /\ pc = "done"
    /\ request.name = "run_single_test"
    /\ HasTestFile
    /\ TestFile = "missing.lua"
    /\ "/repo/test" \in fs
    /\ Text = "Test file not found: missing.lua"
    /\ log = <<>>

(***************************************************************************)
(* The commands the handlers run.                                          *)
(***************************************************************************)
DockerVersionCmd == <<"docker", "--version">>
ComposeVersionCmd == <<"docker", "compose", "version">>
BuildCmd == <<"docker", "compose", "build">>
BuildNoCacheCmd == <<"docker", "compose", "build", "--no-cache">>
SuiteCmd == <<"./test/run-tests.sh">>
SingleCmd(file) ==
    <<"docker", "compose", "run", "--rm", "lua-test", "sh", "-c",
      "echo '=== Running " \o file \o " ===' && lua test/" \o file>>

IsTestCmd(cmd) ==
    cmd \notin { DockerVersionCmd, ComposeVersionCmd, BuildCmd, BuildNoCacheCmd }

\* the process of log entry e ran and exited with code 0
ExitedZero(e) == e.out.kind = "exited" /\ e.out.code = 0

\* the run of log entry e is over and did not exit with code 0
Failed(e) == e.out.kind # "running" /\ ~ExitedZero(e)

Last == log[Len(log)]

\* every run of cmd in the current call exited with code 0, and there is one
AllExitZero(cmd) ==
    /\ \E i \in 1..Len(log) : log[i].cmd = cmd
    /\ \A i \in 1..Len(log) : log[i].cmd = cmd => ExitedZero(log[i])

\* C4: check_docker_status reports 'Docker Environment Ready', with both
\* version strings and the three paths, if and only if both docker --version and
\* docker compose version exit with code 0 in the call; otherwise it reports
\* 'Docker Environment Not Available' naming the check that failed.
C4_ReadyIffBothExitZero ==
    (pc = "done" /\ request.name = "check_docker_status") =>
        LET both == AllExitZero(DockerVersionCmd) /\ AllExitZero(ComposeVersionCmd)
            ready == StartsWith(Text, "[OK] Docker Environment Ready")
        IN /\ response.kind = "result"
           /\ ready <=> both
           /\ ready =>
                /\ Contains(Text, "\nDocker: V1\n")
                /\ Contains(Text, "\nDocker Compose: V1\n")
                /\ Contains(Text, "\nRepository: /repo\n")
                /\ Contains(Text, "\nTest Script: /repo/test/run-tests.sh\n")
                /\ EndsWith(Text, "\nDocker Compose File: /repo/docker-compose.yml")
           /\ ~ready =>
                /\ StartsWith(Text, "[X] Docker Environment Not Available")
                /\ Contains(Text,
                            IF AllExitZero(DockerVersionCmd)
                            THEN "\nError: Docker Compose not found\n"
                            ELSE "\nError: Docker not found\n")

\* C5: when run_tests has run the test command, the response shows that
\* process's exit code as 'Return Code', the banner is PASSED exactly when the
\* exit code is 0, and with a non-empty specific_test the command is the
\* docker compose run of test/<specific_test>.
C5_ReturnCodeIsExitCode ==
    (pc = "done" /\ request.name = "run_tests" /\ log # <<>>
        /\ IsTestCmd(Last.cmd) /\ Last.out.kind = "exited") =>
        LET specific_test == Get(request.arguments, "specific_test", PyNone)
        IN /\ response.kind = "result"
           /\ Contains(Text, "\nReturn Code: " \o ToString(Last.out.code) \o "\n")
           /\ StartsWith(Text, "[OK] PASSED") <=> Last.out.code = 0
           /\ StartsWith(Text, "[X] FAILED") <=> Last.out.code # 0
           /\ (specific_test.type = "str" /\ specific_test.str # "") =>
                Last.cmd = SingleCmd(specific_test.str)

\* C6: when build_test_image reaches the build step, the command is docker
\* compose build --no-cache if force is true and docker compose build
\* otherwise, and the banner is 'Build successful' exactly when it exits 0.
C6_BuildCommandAndBanner ==
    (pc = "done" /\ request.name = "build_test_image" /\ Len(log) = 3) =>
        LET force == Get(request.arguments, "force", PyBool(FALSE))
        IN /\ response.kind = "result"
           /\ Last.cmd = IF force = PyBool(TRUE) THEN BuildNoCacheCmd ELSE BuildCmd
           /\ StartsWith(Text, "[OK] Build successful") <=> ExitedZero(Last)
           /\ StartsWith(Text, "[X] Build failed") <=> ~ExitedZero(Last)

\* C7: run_command returns, for a process that could not be spawned, return
\* code -1 with empty stdout and an error message in stderr, and for a process
\* that ran, the process's own exit code with its captured, decoded output.
C7_RunCommandResult ==
    \A i \in 1..Len(log) :
        /\ log[i].out.kind = "spawn_failed" =>
             /\ log[i].result.returncode = -1
             /\ log[i].result.stdout = ""
             /\ StartsWith(log[i].result.stderr, "Command execution failed: ")
        /\ log[i].out.kind = "exited" =>
             /\ log[i].result.returncode = log[i].out.code
             /\ Decodable(log[i].out.stdout) /\ Decodable(log[i].out.stderr)
             /\ log[i].result.stdout = decode(log[i].out.stdout)
             /\ log[i].result.stderr = decode(log[i].out.stderr)

\* a response text in which the tool reports a failure
SignalsFailure(text) ==
    \/ StartsWith(text, "[X] ")
    \/ StartsWith(text, "Docker not available: ")
    \/ StartsWith(text, "Failed to build Docker image: ")
    \/ StartsWith(text, "Test file not found: ")

\* C8: the client calls each tool at most once, and when a tool it called
\* reported a failure the client process ends with a non-zero exit status.
C8_ClientExitStatus ==
    /\ \A i, j \in 1..Len(client.issued) :
         client.issued[i] = client.issued[j] => i = j
    /\ (client.pc = "exited"
          /\ \E i \in 1..Len(client.printed) : SignalsFailure(client.printed[i]))
       => client.exit # 0

\* the commands a run_tests call with the current arguments runs, in order
ExpectedRuns ==
    LET specific_test == Get(request.arguments, "specific_test", PyNone)
        rebuild == Get(request.arguments, "rebuild", PyBool(FALSE))
    IN <<DockerVersionCmd, ComposeVersionCmd>>
       \o (IF rebuild = PyBool(TRUE) THEN <<BuildNoCacheCmd>> ELSE <<>>)
       \o (IF specific_test.type = "str" /\ specific_test.str # ""
           THEN <<SingleCmd(specific_test.str)>> ELSE <<SuiteCmd>>)

\* C9: a run_tests call spawns docker --version, docker compose version, the
\* build only if rebuild is true, then the test command, in this order; each
\* process is spawned only after all before it exited 0; a failed check ends
\* the call with 'Docker not available: ...' and a failed build with 'Failed
\* to build Docker image: ...'.
C9_RunTestsOrder ==
    (InCall /\ request.name = "run_tests") =>
        /\ Len(log) <= Len(ExpectedRuns)
        /\ \A i \in 1..Len(log) :
             /\ log[i].cmd = ExpectedRuns[i]
             /\ \A j \in 1..(i - 1) : ExitedZero(log[j])
        /\ (pc = "done" /\ log # <<>> /\ Failed(Last) /\ Len(log) <= 2) =>
             Text = "Docker not available: "
                    \o (IF Len(log) = 1 THEN "Docker not found"
                        ELSE "Docker Compose not found")
        /\ (pc = "done" /\ Len(log) = 3 /\ Failed(Last)
              /\ Last.cmd = BuildNoCacheCmd) =>
             Text = "Failed to build Docker image: Build failed"

\* a rebuild followed by the test command, all four processes run
C9_Witness ==
    /\ pc = "done"
    /\ request.name = "run_tests"
    /\ Len(log) = 4
    /\ log[3].cmd = BuildNoCacheCmd
    /\ log[4].cmd = SuiteCmd
    /\ StartsWith(Text, "[X] FAILED")

\* C10: a run_single_test call whose test_file passes the existence check
\* spawns, besides the two docker checks, only the docker compose run of
\* test/<test_file>: never the full suite, never a build.
C10_SingleTestOnly ==
    (InCall /\ request.name = "run_single_test" /\ HasTestFile
            /\ TestPath \in fs /\ fault # "exists") =>
        \A i \in 1..Len(log) :
            /\ log[i].cmd \notin { SuiteCmd, BuildCmd, BuildNoCacheCmd }
            /\ IsTestCmd(log[i].cmd) => log[i].cmd = SingleCmd(TestFile)

\* the current call run from the start directory on the same process outcomes
FreshExec ==
    call_tool(request.name, request.arguments,
              [outs |-> [i \in 1..Len(Completed) |-> Completed[i].out],
               pending |-> FALSE, awaiting |-> <<>>,
               cwd |-> StartDir, fault |-> fault, fs |-> fs])

\* list_tools returns the five tools in registration order
ToolsStable ==
    tools # <<>> =>
        /\ Len(tools) = 5
        /\ tools[1].name = "run_tests"
        /\ tools[2].name = "run_single_test"
        /\ tools[3].name = "build_test_image"
        /\ tools[4].name = "list_test_files"
        /\ tools[5].name = "check_docker_status"

\* the response of a call is what the same call returns in a server that has
\* served no call before
HistoryFree == pc = "done" => response = FreshExec.resp

\* the handlers whose code calls os.chdir, directly or through run_tests
ChdirTools == { "run_tests", "run_single_test", "build_test_image" }

\* C11 as stated: after any calls list_tools is unchanged, no handler has
\* changed the working directory of the server, and a response does not depend
\* on earlier calls.
C11_NoProcessStateChanged ==
    /\ ToolsStable
    /\ cwd = StartDir
    /\ HistoryFree

\* C11 amended: after any calls list_tools still returns the five tools in
\* order and a response depends only on the call's arguments and the external
\* outcomes; the working directory is the one process-wide state handlers
\* change: only a run_tests, run_single_test or build_test_image call whose
\* os.chdir succeeds changes it, and only to REPO_ROOT.
C11_OnlyCwdChanges ==
    /\ [](ToolsStable /\ HistoryFree /\ cwd \in { StartDir, REPO_ROOT })
    /\ [][cwd' # cwd =>
            /\ cwd' = REPO_ROOT
            /\ pc = "running"
            /\ request.name \in ChdirTools
            /\ fault # "chdir"]_vars

\* an earlier call has moved the server to REPO_ROOT, and a call of a handler
\* that never changes directory has returned, the tools having been listed
C11_Witness ==
    /\ cwd = REPO_ROOT
    /\ pc = "done"
    /\ request.name = "list_test_files"
    /\ response.kind = "result"
    /\ StartsWith(Text, "Available test files:")
    /\ tools # <<>>

====
